---------------------------- MODULE Spec2Model ----------------------------
(***************************************************************************)
(* A state-machine model of the page script static/js/main.js of the       *)
(* MailManager application: the CSV intake gate (validateCSVFile), the      *)
(* drag-and-drop adapter, the submit handlers and setLoading, the approval  *)
(* page auto-refresh poller and the showAlert notification channel.         *)
(*                                                                         *)
(* The browser is modelled as one page with one timer queue.  A timer is a  *)
(* record [kind, id, rem]: the callback to run, the element it closes over  *)
(* and the milliseconds left.  Time passes by Wait(d) or by the next timer  *)
(* becoming due; timers with the same due time run in creation order.       *)
(* Text (file names, the path, the query) is a sequence of one-character    *)
(* strings, so toLowerCase, endsWith, includes and trim are computed.       *)
(***************************************************************************)
EXTENDS Integers, Sequences, FiniteSets, TLC

(***************************************************************************)
(* Bounds of the model.                                                    *)
(***************************************************************************)
\* Number of showAlert calls on one page.
MaxAlerts == 3
\* Largest number of files in one drop (dataTransfer.files).
MaxDrop == 2
\* Largest number of outbound submissions of one form counted on one page.
MaxSent == 2
\* Number of input events on the search input of one page.
MaxInputs == 3
\* Number of suggestion dropdowns created on one page.
MaxDropdowns == 3
\* Largest number of setLoading(button, true) calls in a row on one button.
MaxLoading == 3

(***************************************************************************)
(* Program constants.                                                      *)
(***************************************************************************)
DefaultDuration == 5000
HintDuration == 2000
FadeInDelay == 10
FadeOutDelay == 300
RefreshInterval == 30000
ReloadDelay == 1000
MaxUploadMB == 100
MinQueryLength == 2
CopyFailedDuration == 3000
SuggestDelay == 300
\* The maximum of the older copy of the script.
MaxUploadMBOld == 50

(***************************************************************************)
(* Text.                                                                   *)
(***************************************************************************)
toLowerChar(c) ==
    CASE c = "A" -> "a"
      [] c = "C" -> "c"
      [] c = "S" -> "s"
      [] c = "V" -> "v"
      [] c = "T" -> "t"
      [] c = "X" -> "x"
      [] OTHER -> c

toLowerCase(s) == [i \in 1..Len(s) |-> toLowerChar(s[i])]

endsWith(s, suffix) ==
    /\ Len(s) >= Len(suffix)
    /\ SubSeq(s, Len(s) - Len(suffix) + 1, Len(s)) = suffix

includes(s, sub) ==
    \E i \in 1..(Len(s) - Len(sub) + 1) : SubSeq(s, i, i + Len(sub) - 1) = sub

RECURSIVE trimStart(_)
trimStart(s) ==
    IF s # <<>> /\ Head(s) = " " THEN trimStart(Tail(s)) ELSE s

RECURSIVE trimEnd(_)
trimEnd(s) ==
    IF s # <<>> /\ s[Len(s)] = " " THEN trimEnd(SubSeq(s, 1, Len(s) - 1)) ELSE s

trim(s) == trimEnd(trimStart(s))

DotCsv == <<".", "c", "s", "v">>
SlashApproval == <<"/", "a", "p", "p", "r", "o", "v", "a", "l">>

(***************************************************************************)
(* The state of the page.                                                   *)
(***************************************************************************)
VARIABLES
    pathname,    \* window.location.pathname
    alerts,      \* the alert elements showAlert created, in order of creation
    timers,      \* the pending timers, in creation order
    latest,      \* the alert the last showAlert call created, 0 before the first
    files,       \* #csvFile's files (input.files)
    fileInfo,    \* what #fileInfo shows
    dragOver,    \* the upload form carries the class drag-over
    btn,         \* each form's submit button
    query,       \* the value of the search input input[name="q"]
    sent,        \* outbound submissions of each form dispatched on this page
    modalOpen,   \* some .modal.show element exists
    activeTag,   \* document.activeElement's tagName, "NONE" for null
    indicators,  \* refresh indicator elements appended to the body
    lastTick,    \* history: what the poller's last tick on this page saw and did,
                 \* and whether the poller's reload loaded this page
    suggest,     \* the suggestion dropdowns of the search input: how many were
                 \* made, the one input._suggestionsDropdown refers to (0 for
                 \* none) and those attached to the document
    deb,         \* history: calls of the debounced input listener, the bursts
                 \* they form, invocations of the handler and its last argument
    ev           \* history: the handler that ran last, with what it was given

alertVars == <<alerts, timers, latest>>
uploadVars == <<files, fileInfo, dragOver>>
formVars == <<btn, query, sent>>
pollVars == <<modalOpen, activeTag, indicators, lastTick>>
searchVars == <<suggest, deb>>
vars == <<pathname, alerts, timers, latest, files, fileInfo, dragOver, btn,
          query, sent, modalOpen, activeTag, indicators, lastTick, suggest,
          deb, ev>>

Slots == 1..MaxAlerts
Forms == {"search", "upload"}
Severities == {"info", "success", "warning", "danger"}

NoAlert == [st |-> "none", opacity |-> 0, msg |-> "", type |-> ""]

(***************************************************************************)
(* Timers.                                                                 *)
(***************************************************************************)
Timer(kind, id, rem) == [kind |-> kind, id |-> id, rem |-> rem]

MinRem(ts) == CHOOSE r \in {ts[i].rem : i \in 1..Len(ts)} :
                  \A i \in 1..Len(ts) : r <= ts[i].rem

\* The index of the timer that runs next: the earliest due, and among those
\* the one created first.
NextIdx(ts) == CHOOSE i \in 1..Len(ts) :
                   /\ ts[i].rem = MinRem(ts)
                   /\ \A j \in 1..(i - 1) : ts[j].rem > MinRem(ts)

RemoveAt(ts, i) == SubSeq(ts, 1, i - 1) \o SubSeq(ts, i + 1, Len(ts))

Elapse(ts, d) == [i \in 1..Len(ts) |-> [ts[i] EXCEPT !.rem = @ - d]]

\* The queue once the next timer has been taken off it to run.
AfterNext(ts) == RemoveAt(Elapse(ts, MinRem(ts)), NextIdx(ts))

Due(kind) == timers # <<>> /\ timers[NextIdx(timers)].kind = kind
DueId == timers[NextIdx(timers)].id

(***************************************************************************)
(* showAlert(message, type, duration), as a function of the alert state     *)
(* A = [alerts, timers, latest].  The alert the n-th call creates is alert  *)
(* n, so latest is also the number of calls made on this page.              *)
(***************************************************************************)
Attached(as) == {i \in Slots : as[i].st = "attached"}

RECURSIVE RemovalTimers(_)
RemovalTimers(S) ==
    IF S = {} THEN <<>>
    ELSE LET i == CHOOSE x \in S : \A y \in S : x <= y
         IN <<Timer("remove", i, FadeOutDelay)>> \o RemovalTimers(S \ {i})

\* Lines 471-475: every existing auto alert is made transparent and a timer
\* that removes it is set.
FadeExisting(as) ==
    [i \in Slots |-> IF as[i].st = "attached" THEN [as[i] EXCEPT !.opacity = 0]
                     ELSE as[i]]

showAlert_NoExpiry(A, message, type, duration) ==
    LET new == A.latest + 1
    IN [alerts |-> [FadeExisting(A.alerts) EXCEPT ![new] =
                        [st |-> "attached", opacity |-> 0, msg |-> message, type |-> type]],
        timers |-> A.timers
                   \o RemovalTimers(Attached(A.alerts))
                   \o <<Timer("fadeIn", new, FadeInDelay)>>,
        latest |-> new]

showAlert_NoRemovalTimer(A, message, type, duration) ==
    LET new == A.latest + 1
    IN [alerts |-> [FadeExisting(A.alerts) EXCEPT ![new] =
                        [st |-> "attached", opacity |-> 0, msg |-> message, type |-> type]],
        timers |-> A.timers
                   \o <<Timer("fadeIn", new, FadeInDelay), Timer("expire", new, duration)>>,
        latest |-> new]

showAlert(A, message, type, duration) ==
    LET new == A.latest + 1
    IN [alerts |-> [FadeExisting(A.alerts) EXCEPT ![new] =
                        [st |-> "attached", opacity |-> 0, msg |-> message, type |-> type]],
        timers |-> A.timers
                   \o RemovalTimers(Attached(A.alerts))
                   \o <<Timer("fadeIn", new, FadeInDelay), Timer("expire", new, duration)>>,
        latest |-> new]

AlertState == [alerts |-> alerts, timers |-> timers, latest |-> latest]

SetAlertState(A) ==
    /\ alerts' = A.alerts
    /\ timers' = A.timers
    /\ latest' = A.latest

\* The handler about to run may call showAlert n times.
CanAlert(n) == latest + n <= MaxAlerts

Ev(op, a) == [op |-> op, a |-> a]
None == [none |-> TRUE]

(***************************************************************************)
(* Page load: the state once DOMContentLoaded has run the initialisers on   *)
(* a page at `path`, whose template rendered the search input with value q  *)
(* and #submitBtn disabled or not.                                          *)
(***************************************************************************)
NoSuggestions == [made |-> 0, ref |-> 0, attached |-> {}]

NoInput == [calls |-> 0, bursts |-> 0, invoked |-> 0, arg |-> 0]

NoTick == [fired |-> FALSE, modal |-> FALSE, tag |-> "", scheduled |-> FALSE,
           afterSkip |-> FALSE, viaReload |-> FALSE]

Button(disabled) ==
    [disabled |-> disabled, loading |-> FALSE, html |-> "orig", saved |-> "none"]

initializeAutoRefresh_Everywhere(path) ==
    <<Timer("interval", 0, RefreshInterval)>>

\* Lines 293-318: the interval is installed on approval pages only.
initializeAutoRefresh(path) ==
    IF includes(path, SlashApproval)
    THEN <<Timer("interval", 0, RefreshInterval)>>
    ELSE <<>>

\* byPoller: the page is loaded by the poller's window.location.reload().
LoadPage(path, q, dis, byPoller) ==
    /\ pathname' = path
    /\ alerts' = [i \in Slots |-> NoAlert]
    /\ timers' = initializeAutoRefresh(path)
    /\ latest' = 0
    /\ files' = <<>>
    /\ fileInfo' = [kind |-> "initial", name |-> <<>>, size |-> 0]
    /\ dragOver' = FALSE
    /\ btn' = [f \in Forms |-> IF f = "upload" THEN Button(dis) ELSE Button(FALSE)]
    /\ query' = q
    /\ sent' = [f \in Forms |-> 0]
    /\ modalOpen' = FALSE
    /\ activeTag' = "BODY"
    /\ indicators' = 0
    /\ lastTick' = [NoTick EXCEPT !.viaReload = byPoller]
    /\ suggest' = NoSuggestions
    /\ deb' = NoInput

PageLoad(path, q, dis) == LoadPage(path, q, dis, FALSE)

(***************************************************************************)
(* The notification channel: calls of showAlert, its timers, and the close  *)
(* control of an alert.                                                     *)
(***************************************************************************)
MsgCopied == "Copied to clipboard!"
MsgCopyFailed == "Failed to copy to clipboard."
MsgQueryTooShort == "Please enter at least 2 characters to search."
MsgSelectCsv == "Please select a CSV file."
MsgTooLarge == "File size must be less than 100MB."
MsgDropHere == "Drop CSV file here to upload"
MsgReady == "CSV file ready for upload!"
MsgDropCsv == "Please drop a CSV file."

\* Calls other code of the page makes (copyToClipboard, lines 569 and 571).
AlertCalls ==
    { <<MsgCopied, "success", HintDuration>>,
      <<MsgCopyFailed, "danger", CopyFailedDuration>> }

\* How long the user may let pass between two events, in milliseconds.
AlertDelays == {5, 150}

ShowAlertCall(c) ==
    /\ CanAlert(1)
    /\ SetAlertState(showAlert(AlertState, c[1], c[2], c[3]))
    /\ ev' = Ev("showAlert", None)
    /\ UNCHANGED <<searchVars, pathname, uploadVars, formVars, pollVars>>

\* Lines 499-501: the fade-in timer of alert DueId runs.
FadeInTimer ==
    /\ Due("fadeIn")
    /\ SetAlertState(([alerts |-> [alerts EXCEPT ![DueId].opacity = 1],
                             timers |-> AfterNext(timers),
                             latest |-> latest]))
    /\ ev' = Ev("fadeIn", None)
    /\ UNCHANGED <<searchVars, pathname, uploadVars, formVars, pollVars>>

\* Lines 504-509: the auto-dismiss timer of alert DueId runs.
ExpireTimer ==
    /\ Due("expire")
    /\ LET id == DueId
           ts == AfterNext(timers)
       IN IF alerts[id].st = "attached"
          THEN SetAlertState(([alerts |-> [alerts EXCEPT ![id].opacity = 0],
                                     timers |-> ts \o <<Timer("remove", id, FadeOutDelay)>>,
                                     latest |-> latest]))
          ELSE SetAlertState(([alerts |-> alerts, timers |-> ts, latest |-> latest]))
    /\ ev' = Ev("expire", None)
    /\ UNCHANGED <<searchVars, pathname, uploadVars, formVars, pollVars>>

\* Lines 474 and 507: alert.remove() runs for alert DueId.
RemoveTimer ==
    /\ Due("remove")
    /\ SetAlertState(([alerts |-> [alerts EXCEPT ![DueId].st =
                                            IF @ = "attached" THEN "detached" ELSE @],
                             timers |-> AfterNext(timers),
                             latest |-> latest]))
    /\ ev' = Ev("remove", None)
    /\ UNCHANGED <<searchVars, pathname, uploadVars, formVars, pollVars>>

\* Line 493: the user clicks the alert's close control (data-bs-dismiss), and
\* the element is detached.  No timer of the alert is cleared.
Dismiss(i) ==
    /\ alerts[i].st = "attached"
    /\ SetAlertState(([alerts |-> [alerts EXCEPT ![i].st = "detached"],
                             timers |-> timers,
                             latest |-> latest]))
    /\ ev' = Ev("dismiss", None)
    /\ UNCHANGED <<searchVars, pathname, uploadVars, formVars, pollVars>>

\* The handlers the user (or a script of the page) sets off.
UserOps ==
    {"load", "visit", "showAlert", "dismiss", "openModal", "closeModal", "focus", "tick",
     "input", "copy"}

\* Time passes after a user event, and no timer is due yet.
Wait(d) ==
    /\ timers # <<>>
    /\ ev.op \in UserOps
    /\ d < MinRem(timers)
    /\ timers' = Elapse(timers, d)
    /\ ev' = Ev("wait", None)
    /\ UNCHANGED <<searchVars, pathname, alerts, latest, uploadVars, formVars, pollVars>>

PathEmails == <<"/", "e", "m", "a", "i", "l", "s">>
PathUpload == <<"/", "e", "m", "a", "i", "l", "s", "/", "u", "p", "l", "o", "a", "d">>
PathApproval == <<"/", "a", "p", "p", "r", "o", "v", "a", "l">>
PathApprovalPending == PathApproval \o <<"/", "p", "e", "n", "d", "i", "n", "g">>
PathSearch == <<"/", "s", "e", "a", "r", "c", "h">>

Queries == { <<>>, <<"a">>, <<" ", "a", " ">>, <<"a", "b">> }

InitPage(paths, queries, disabled) ==
    /\ pathname \in paths
    /\ alerts = [i \in Slots |-> NoAlert]
    /\ timers = initializeAutoRefresh(pathname)
    /\ latest = 0
    /\ files = <<>>
    /\ fileInfo = [kind |-> "initial", name |-> <<>>, size |-> 0]
    /\ dragOver = FALSE
    /\ \E dis \in disabled :
          btn = [f \in Forms |-> IF f = "upload" THEN Button(dis) ELSE Button(FALSE)]
    /\ query \in queries
    /\ sent = [f \in Forms |-> 0]
    /\ modalOpen = FALSE
    /\ activeTag = "BODY"
    /\ indicators = 0
    /\ lastTick = NoTick
    /\ suggest = NoSuggestions
    /\ deb = NoInput
    /\ ev = Ev("load", None)

(***************************************************************************)
(* The notification channel on its own.                                     *)
(***************************************************************************)
InitAlert == InitPage({PathEmails}, {<<>>}, {TRUE})

NextAlert ==
    \/ \E c \in AlertCalls : ShowAlertCall(c)
    \/ FadeInTimer
    \/ ExpireTimer
    \/ RemoveTimer
    \/ \E i \in Slots : Dismiss(i)
    \/ \E d \in AlertDelays : Wait(d)

SpecAlert == InitAlert /\ [][NextAlert]_vars

\* What the browser does with a copy: whether navigator.clipboard exists,
\* whether the promise writeText returns is fulfilled, and whether
\* document.execCommand('copy') returns true, returns false (the command is
\* unsupported or disabled) or throws.
CopyEnvs ==
    { [clipboard |-> TRUE, write |-> "fulfilled", exec |-> "none"],
      [clipboard |-> TRUE, write |-> "rejected", exec |-> "none"],
      [clipboard |-> FALSE, write |-> "none", exec |-> "true"],
      [clipboard |-> FALSE, write |-> "none", exec |-> "false"],
      [clipboard |-> FALSE, write |-> "none", exec |-> "throws"] }

\* Lines 566-589: copyToClipboard(text), as a function of the alert state A
\* and of what the browser does: the alert state it leaves, whether the text
\* was copied, whether the temporary textarea is still attached and whether
\* an exception escaped.
copyToClipboard(A, env) ==
    IF env.clipboard
    THEN IF env.write = "fulfilled"
         THEN [A |-> showAlert(A, MsgCopied, "success", HintDuration),
               copied |-> TRUE, textarea |-> FALSE, escaped |-> FALSE]
         ELSE [A |-> showAlert(A, MsgCopyFailed, "danger", CopyFailedDuration),
               copied |-> FALSE, textarea |-> FALSE, escaped |-> FALSE]
    ELSE IF env.exec = "throws"
         THEN [A |-> showAlert(A, MsgCopyFailed, "danger", CopyFailedDuration),
               copied |-> FALSE, textarea |-> FALSE, escaped |-> FALSE]
         ELSE [A |-> showAlert(A, MsgCopied, "success", HintDuration),
               copied |-> env.exec = "true", textarea |-> FALSE, escaped |-> FALSE]

\* A call of copyToClipboard, with the reaction to its promise.
Copy(env) ==
    LET r == copyToClipboard(AlertState, env)
    IN /\ CanAlert(1)
       /\ SetAlertState(r.A)
       /\ ev' = Ev("copy", [calls |-> latest, fallback |-> ~env.clipboard,
                            copied |-> r.copied, textarea |-> r.textarea,
                            escaped |-> r.escaped])
       /\ UNCHANGED <<searchVars, pathname, uploadVars, formVars, pollVars>>

NextCopy ==
    \/ \E env \in CopyEnvs : Copy(env)
    \/ FadeInTimer
    \/ ExpireTimer
    \/ RemoveTimer
    \/ \E i \in Slots : Dismiss(i)
    \/ \E d \in AlertDelays : Wait(d)

SpecCopy == InitAlert /\ [][NextCopy]_vars

\* The timers of the page run when they are due.
FairSpecAlert ==
    /\ SpecAlert
    /\ WF_vars(FadeInTimer)
    /\ WF_vars(ExpireTimer)
    /\ WF_vars(RemoveTimer)

(***************************************************************************)
(* The file intake gate and the drag-and-drop adapter.                      *)
(***************************************************************************)
File(name, size) == [name |-> name, size |-> size]

\* The files the user may pick or drop: a small CSV, an upper-case CSV of
\* exactly the maximum size, a CSV one byte above it, a small file whose
\* name lacks the dot, and a text file above the maximum.
Files ==
    { File(<<"a", ".", "c", "s", "v">>, 2621440),
      File(<<"A", ".", "C", "S", "V">>, 104857600),
      File(<<"a", ".", "c", "s", "v">>, 104857601),
      File(<<"c", "s", "v">>, 2621440),
      File(<<"a", ".", "t", "x", "t">>, 104857601) }

FileLists(n) == UNION {[1..k -> Files] : k \in 0..n}

\* Lines 70 and 76: fileName = file.name.toLowerCase(); fileName.endsWith('.csv').
hasCsvExtension(name) == endsWith(toLowerCase(name), DotCsv)

exceedsMaxSize_AtLeast(size) == size >= MaxUploadMB * 1024 * 1024

exceedsMaxSize_Gigabytes(size) == size \div 1024 > MaxUploadMB * 1024 * 1024

\* Lines 71 and 87: fileSize = file.size / 1024 / 1024; fileSize > 100.  The
\* divisions by a power of two are exact, so this is size > 100 * 2^20.
exceedsMaxSize(size) == size > MaxUploadMB * 1024 * 1024

clearInput_KeepsFiles(fs) == fs

\* Lines 77 and 88: input.value = ''.
clearInput(fs) == <<>>

\* Lines 77-83 and 88-94: the staged selection is cleared, the reason is
\* alerted and shown in #fileInfo, and #submitBtn is disabled.
rejectFile(U, kind, message) ==
    [files |-> clearInput(U.files),
     fileInfo |-> [kind |-> kind, name |-> <<>>, size |-> 0],
     disabled |-> TRUE,
     A |-> showAlert(U.A, message, "danger", DefaultDuration)]

acceptFile_LeavesButton(U) ==
    [U EXCEPT !.fileInfo = [kind |-> "selected", name |-> U.files[1].name,
                            size |-> U.files[1].size]]

acceptFile_TogglesButton(U) ==
    [U EXCEPT !.fileInfo = [kind |-> "selected", name |-> U.files[1].name,
                            size |-> U.files[1].size],
              !.disabled = ~U.disabled]

\* Lines 97-104: #fileInfo names the file and #submitBtn is enabled.
acceptFile(U) ==
    [U EXCEPT !.fileInfo = [kind |-> "selected", name |-> U.files[1].name,
                            size |-> U.files[1].size],
              !.disabled = FALSE]

validateCSVFile_LastFile(U) ==
    IF U.files = <<>> THEN U
    ELSE LET V == [U EXCEPT !.files = <<U.files[Len(U.files)]>>]
         IN IF ~hasCsvExtension(V.files[1].name)
            THEN rejectFile(V, "bad_extension", MsgSelectCsv)
            ELSE IF exceedsMaxSize(V.files[1].size)
                 THEN rejectFile(V, "too_large", MsgTooLarge)
            ELSE [acceptFile(V) EXCEPT !.files = U.files]

\* validateCSVFile(input), as a function of U = [files, fileInfo, disabled, A]:
\* the input's files, #fileInfo, #submitBtn.disabled and the alert state.
validateCSVFile(U) ==
    IF U.files = <<>> THEN U
    ELSE IF ~hasCsvExtension(U.files[1].name)
         THEN rejectFile(U, "bad_extension", MsgSelectCsv)
    ELSE IF exceedsMaxSize(U.files[1].size)
         THEN rejectFile(U, "too_large", MsgTooLarge)
    ELSE acceptFile(U)

Accepted(file) == hasCsvExtension(file.name) /\ ~exceedsMaxSize(file.size)

\* The older copy of the script, lines 61-90: validateCSVFile(input) there,
\* as a function of the input's files: the files it leaves in the input and
\* its outcome.
validateCSVFileOld(fs) ==
    IF fs = <<>> THEN [files |-> fs, outcome |-> "none"]
    ELSE IF ~endsWith(toLowerCase(fs[1].name), DotCsv)
         THEN [files |-> <<>>, outcome |-> "bad_extension"]
    ELSE IF fs[1].size > MaxUploadMBOld * 1024 * 1024
         THEN [files |-> <<>>, outcome |-> "too_large"]
    ELSE [files |-> fs, outcome |-> "selected"]

UploadState(fs) ==
    [files |-> fs, fileInfo |-> fileInfo, disabled |-> btn["upload"].disabled,
     A |-> AlertState]

SetUploadState(U) ==
    /\ files' = U.files
    /\ fileInfo' = U.fileInfo
    /\ btn' = [btn EXCEPT !["upload"].disabled = U.disabled]
    /\ SetAlertState(U.A)

\* What a handler was given, and what the page was like when it started.
Given(fs) ==
    [first |-> IF fs = <<>> THEN <<>> ELSE <<fs[1]>>, count |-> Len(fs), calls |-> latest,
     disabled |-> btn["upload"].disabled]

\* Lines 34-36: the change event of #csvFile, after the user picked fs (one
\* file, or none when the picker was cancelled).
Change(fs) ==
    /\ CanAlert(IF fs # <<>> /\ ~Accepted(fs[1]) THEN 1 ELSE 0)
    /\ SetUploadState(validateCSVFile(UploadState(fs)))
    /\ ev' = Ev("change", Given(fs))
    /\ UNCHANGED <<searchVars, pathname, dragOver, query, sent, pollVars>>

\* Lines 273-287: handleDrop, as a function of the upload state.
handleDrop(U, dropped) ==
    IF Len(dropped) > 0
    THEN IF hasCsvExtension(dropped[1].name)
         THEN LET V == validateCSVFile([U EXCEPT !.files = dropped])
              IN [V EXCEPT !.A = showAlert(V.A, MsgReady, "success", DefaultDuration)]
         ELSE [U EXCEPT !.A = showAlert(U.A, MsgDropCsv, "warning", DefaultDuration)]
    ELSE U

AlertsOfDrop(dropped) ==
    IF dropped = <<>> THEN 0
    ELSE IF hasCsvExtension(dropped[1].name) /\ exceedsMaxSize(dropped[1].size) THEN 2
    ELSE 1

\* Line 263: uploadForm.classList.add('drag-over').
addDragOver(h) == TRUE

unhighlight_Keeps(h) == h

\* Lines 267-269: unhighlight: uploadForm.classList.remove('drag-over').
unhighlight(h) == FALSE

\* Lines 258-271: the drop event on the upload form: unhighlight, then handleDrop.
Drop(dropped) ==
    /\ CanAlert(AlertsOfDrop(dropped))
    /\ dragOver' = unhighlight(dragOver)
    /\ SetUploadState(handleDrop(UploadState(files), dropped))
    /\ ev' = Ev("drop", Given(dropped))
    /\ UNCHANGED <<searchVars, pathname, query, sent, pollVars>>

\* Lines 254-265: dragenter or dragover on the upload form: highlight.
DragOver ==
    /\ CanAlert(1)
    /\ dragOver' = addDragOver(dragOver)
    /\ SetAlertState(showAlert(AlertState, MsgDropHere, "info", HintDuration))
    /\ ev' = Ev("dragover", None)
    /\ UNCHANGED <<searchVars, pathname, files, fileInfo, formVars, pollVars>>

\* Lines 258-269: dragleave on the upload form: unhighlight.
DragLeave ==
    /\ dragOver' = unhighlight(dragOver)
    /\ ev' = Ev("dragleave", None)
    /\ UNCHANGED <<searchVars, pathname, alertVars, files, fileInfo, formVars, pollVars>>

\* The user reloads the page, or follows a link to it.
Revisit ==
    /\ \E dis \in BOOLEAN : PageLoad(pathname, query, dis)
    /\ ev' = Ev("load", None)

InitUpload == InitPage({PathUpload}, {<<>>}, BOOLEAN)

NextUpload ==
    \/ \E fs \in FileLists(1) : Change(fs)
    \/ \E fs \in FileLists(MaxDrop) : Drop(fs)
    \/ FadeInTimer
    \/ ExpireTimer
    \/ RemoveTimer
    \/ Revisit

SpecUpload == InitUpload /\ [][NextUpload]_vars

\* The intake gate on an upload page whose template renders #submitBtn
\* disabled: selections (and cancelled pickers) and drops.
InitGate == InitPage({PathUpload}, {<<>>}, {TRUE})

NextGate ==
    \/ \E fs \in FileLists(1) : Change(fs)
    \/ \E fs \in FileLists(MaxDrop) : Drop(fs)
    \/ FadeInTimer
    \/ ExpireTimer
    \/ RemoveTimer

SpecGate == InitGate /\ [][NextGate]_vars

\* The drag events of the upload form, with drops of at most one file.
NextDrag ==
    \/ DragOver
    \/ DragLeave
    \/ \E fs \in FileLists(1) : Drop(fs)
    \/ FadeInTimer
    \/ ExpireTimer
    \/ RemoveTimer
    \/ Revisit

SpecDrag == InitUpload /\ [][NextDrag]_vars

(***************************************************************************)
(* Form submission: the submit handlers, setLoading, and the Enter key of   *)
(* the search input.                                                        *)
(***************************************************************************)
\* Lines 517-544: setLoading(element, loading) on a submit button.
setLoading(b, loading) ==
    IF loading
    THEN [disabled |-> TRUE, loading |-> TRUE, html |-> "spin", saved |-> b.html]
    ELSE [disabled |-> FALSE, loading |-> FALSE,
          html |-> IF b.saved # "none" THEN b.saved ELSE b.html,
          saved |-> "none"]

\* Lines 43-44: the search form's query is shorter than 2 characters.
queryTooShort(q) == Len(trim(q)) < MinQueryLength

\* Lines 55-58: the general submit handler puts an enabled button into the
\* busy state.
lockButton(b) == IF ~b.disabled THEN setLoading(b, TRUE) ELSE b

\* What a submit attempt found: the form, whether its button was busy and
\* how many of its submissions were in flight.
Attempt(f) == [form |-> f, busy |-> btn[f].loading, inflight |-> sent[f],
               calls |-> latest]

\* Lines 42-48 and 54-59: a submit event on form f, set off by its submit
\* button, which the browser lets the user activate only while it is enabled.
\* The search form's handler cancels a short query; the general handler runs
\* whether or not the event was cancelled.  An event that is not cancelled
\* sends the form.
SubmitEvent(f) ==
    LET cancelled == f = "search" /\ queryTooShort(query)
    IN /\ ~btn[f].disabled
       /\ sent[f] < MaxSent
       /\ CanAlert(IF cancelled THEN 1 ELSE 0)
       /\ SetAlertState(IF cancelled
                        THEN showAlert(AlertState, MsgQueryTooShort, "warning",
                                       DefaultDuration)
                        ELSE AlertState)
       /\ btn' = [btn EXCEPT ![f] = lockButton(@)]
       /\ sent' = [sent EXCEPT ![f] = IF cancelled THEN @ ELSE @ + 1]
       /\ ev' = Ev("submit", Attempt(f))
       /\ UNCHANGED <<searchVars, pathname, uploadVars, query, pollVars>>

\* Lines 134-139: Enter in the search input: the default is prevented and
\* form.submit() sends the form; no submit event is fired.
EnterKey ==
    /\ sent["search"] < MaxSent
    /\ sent' = [sent EXCEPT !["search"] = @ + 1]
    /\ activeTag' = "INPUT"
    /\ ev' = Ev("enter", Attempt("search"))
    /\ UNCHANGED <<searchVars, pathname, alertVars, uploadVars, btn, query, modalOpen,
                   indicators, lastTick>>

\* The response to a submission arrives and the browser loads it.
Response(f) ==
    /\ sent[f] > 0
    /\ \E p \in {PathEmails, PathSearch}, q \in Queries, dis \in BOOLEAN :
          PageLoad(p, q, dis)
    /\ ev' = Ev("load", None)

InitForms == InitPage({PathEmails, PathSearch}, Queries, BOOLEAN)

NextForms ==
    \/ \E f \in Forms : SubmitEvent(f)
    \/ EnterKey
    \/ \E f \in Forms : Response(f)
    \/ FadeInTimer
    \/ ExpireTimer
    \/ RemoveTimer

SpecForms == InitForms /\ [][NextForms]_vars

\* The last call was setLoading(button, true) on the button of form f.
Loading(f) == ev.op = "setLoading" /\ ev.a.form = f /\ ev.a.loading

\* Lines 517-544: a call setLoading(button, loading) on the submit button of
\* form f, by the page or through window.EmailTriageAI.setLoading.  The
\* history keeps the markup the button had before the first call of a row of
\* setLoading(button, true) calls, and how many there were.
SetLoadingCall(f, loading) ==
    /\ loading /\ Loading(f) => ev.a.trues < MaxLoading
    /\ btn' = [btn EXCEPT ![f] = setLoading(@, loading)]
    /\ ev' = Ev("setLoading",
                [form |-> f, loading |-> loading,
                 start |-> IF Loading(f) THEN ev.a.start ELSE btn[f].html,
                 trues |-> (IF Loading(f) THEN ev.a.trues ELSE 0)
                           + (IF loading THEN 1 ELSE 0)])
    /\ UNCHANGED <<searchVars, pathname, alertVars, uploadVars, query, sent, pollVars>>

NextLoading ==
    \/ \E f \in Forms, loading \in BOOLEAN : SetLoadingCall(f, loading)
    \/ \E f \in Forms : SubmitEvent(f)

SpecLoading == InitForms /\ [][NextLoading]_vars

\* The upload form: its file input, drops on it, and its submission.
NextLock ==
    \/ SubmitEvent("upload")
    \/ \E fs \in FileLists(1) : Change(fs)
    \/ \E fs \in FileLists(1) : Drop(fs)
    \/ Revisit
    \/ FadeInTimer
    \/ ExpireTimer
    \/ RemoveTimer

SpecLock == InitUpload /\ [][NextLock]_vars

\* The server answers every submission, and the timers of the page run when
\* they are due.
FairSpecForms ==
    /\ SpecForms
    /\ WF_vars(\E f \in Forms : Response(f))
    /\ WF_vars(FadeInTimer)
    /\ WF_vars(ExpireTimer)
    /\ WF_vars(RemoveTimer)

(***************************************************************************)
(* The auto-refresh poller of the approval pages.                           *)
(***************************************************************************)
Tags == {"NONE", "BODY", "A", "BUTTON", "INPUT", "TEXTAREA", "SELECT"}

mayRefresh_IgnoresModal(modal, tag) ==
    tag = "NONE" \/ (tag # "BUTTON" /\ tag # "INPUT" /\ tag # "TEXTAREA")

\* Lines 300-304: no modal is shown, and the active element is null or is
\* not a BUTTON, an INPUT or a TEXTAREA.
mayRefresh(modal, tag) ==
    /\ ~modal
    /\ tag = "NONE" \/ (tag # "BUTTON" /\ tag # "INPUT" /\ tag # "TEXTAREA")

repeatInterval_Once(ts) == ts

\* Lines 298 and 316: setInterval runs the callback again 30 s later.
repeatInterval(ts) == ts \o <<Timer("interval", 0, RefreshInterval)>>

\* Lines 298-316: the interval's callback.
IntervalTimer ==
    LET go == mayRefresh(modalOpen, activeTag)
        ts == repeatInterval(AfterNext(timers))
    IN /\ Due("interval")
       /\ timers' = IF go THEN ts \o <<Timer("reload", 0, ReloadDelay)>> ELSE ts
       /\ indicators' = IF go THEN indicators + 1 ELSE indicators
       /\ lastTick' = [fired |-> TRUE, modal |-> modalOpen, tag |-> activeTag,
                       scheduled |-> go,
                       afterSkip |-> lastTick.fired /\ ~lastTick.scheduled,
                       viaReload |-> lastTick.viaReload]
       /\ ev' = Ev("tick", None)
       /\ UNCHANGED <<searchVars, pathname, alerts, latest, uploadVars, formVars, modalOpen,
                      activeTag>>

\* Lines 312-314: window.location.reload() runs: the page at the same URL is
\* loaded again, and DOMContentLoaded runs the initialisers on it.
ReloadTimer ==
    /\ Due("reload")
    /\ LoadPage(pathname, query, btn["upload"].disabled, TRUE)
    /\ ev' = Ev("reload", [modal |-> modalOpen, tag |-> activeTag,
                           tick |-> lastTick])

OpenModal ==
    /\ ~modalOpen
    /\ modalOpen' = TRUE
    /\ ev' = Ev("openModal", None)
    /\ UNCHANGED <<searchVars, pathname, alertVars, uploadVars, formVars, activeTag,
                   indicators, lastTick>>

CloseModal ==
    /\ modalOpen
    /\ modalOpen' = FALSE
    /\ ev' = Ev("closeModal", None)
    /\ UNCHANGED <<searchVars, pathname, alertVars, uploadVars, formVars, activeTag,
                   indicators, lastTick>>

\* The focus moves to an element with tag name t (or to none).
Focus(t) ==
    /\ activeTag # t
    /\ activeTag' = t
    /\ ev' = Ev("focus", None)
    /\ UNCHANGED <<searchVars, pathname, alertVars, uploadVars, formVars, modalOpen,
                   indicators, lastTick>>

\* The user follows a link to the page at p.
Visit(p) ==
    /\ p # pathname
    /\ PageLoad(p, query, btn["upload"].disabled)
    /\ ev' = Ev("visit", None)

PollPaths == {PathApproval, PathApprovalPending, PathEmails}
PollDelays == {500, 10000}

InitPoller == InitPage(PollPaths, {<<>>}, {TRUE})

NextPoller ==
    \/ IntervalTimer
    \/ ReloadTimer
    \/ OpenModal
    \/ CloseModal
    \/ \E t \in Tags : Focus(t)
    \/ \E p \in PollPaths : Visit(p)
    \/ \E d \in PollDelays : Wait(d)

SpecPoller == InitPoller /\ [][NextPoller]_vars

\* The timers of the page run when they are due.
FairSpecPoller ==
    SpecPoller /\ WF_vars(IntervalTimer) /\ WF_vars(ReloadTimer)

(***************************************************************************)
(* The search input: the debounced input listener and the suggestions       *)
(* dropdown.                                                                *)
(***************************************************************************)
\* 'negative emails'
SuggestNegative ==
    <<"n", "e", "g", "a", "t", "i", "v", "e", " ", "e", "m", "a", "i", "l", "s">>
\* 'positive feedback'
SuggestPositive ==
    <<"p", "o", "s", "i", "t", "i", "v", "e", " ", "f", "e", "e", "d", "b", "a", "c", "k">>
\* 'high priority emails'
SuggestPriority ==
    <<"h", "i", "g", "h", " ", "p", "r", "i", "o", "r", "i", "t", "y", " ", "e", "m", "a", "i", "l", "s">>
\* 'support tickets'
SuggestTickets ==
    <<"s", "u", "p", "p", "o", "r", "t", " ", "t", "i", "c", "k", "e", "t", "s">>
\* 'login issues'
SuggestLogin ==
    <<"l", "o", "g", "i", "n", " ", "i", "s", "s", "u", "e", "s">>
\* 'order inquiries'
SuggestOrders ==
    <<"o", "r", "d", "e", "r", " ", "i", "n", "q", "u", "i", "r", "i", "e", "s">>
\* 'technical problems'
SuggestTechnical ==
    <<"t", "e", "c", "h", "n", "i", "c", "a", "l", " ", "p", "r", "o", "b", "l", "e", "m", "s">>

\* Lines 170-178: the built-in suggestions, in the order of the array.
Suggestions ==
    <<SuggestNegative, SuggestPositive, SuggestPriority, SuggestTickets,
      SuggestLogin, SuggestOrders, SuggestTechnical>>

\* Lines 181-183: suggestions.filter(s => s.toLowerCase().includes(query.toLowerCase())).
filteredSuggestions(q) ==
    SelectSeq(Suggestions, LAMBDA s : includes(toLowerCase(s), toLowerCase(q)))

hideSearchSuggestions_KeepsElement(S) ==
    IF S.ref # 0 THEN [S EXCEPT !.ref = 0] ELSE S

\* Lines 226-231: hideSearchSuggestions(input), as a function of the
\* dropdown state S = [made, ref, attached].
hideSearchSuggestions(S) ==
    IF S.ref # 0
    THEN [S EXCEPT !.attached = {d \in @ : d.id # S.ref}, !.ref = 0]
    ELSE S

\* Lines 165-221: showSearchSuggestions(input, query).
showSearchSuggestions(S, q) ==
    LET H == hideSearchSuggestions(S)
        new == H.made + 1
    IN IF filteredSuggestions(q) # <<>>
       THEN [made |-> new, ref |-> new,
             attached |-> H.attached \cup {[id |-> new, items |-> filteredSuggestions(q)]}]
       ELSE H

\* Line 557: clearTimeout(timeout).
clearTimeout(ts) == SelectSeq(ts, LAMBDA t : t.kind # "debounce")

debounce_NoClear(ts, arg) == ts \o <<Timer("debounce", arg, SuggestDelay)>>

\* Lines 549-561: a call of the function debounce(func, 300) returned, with
\* immediate unset: the pending timeout is cleared and a new one is set whose
\* callback closes over the arguments of this call.
debounce(ts, arg) == clearTimeout(ts) \o <<Timer("debounce", arg, SuggestDelay)>>

\* Line 553: func(...args) is a plain call, so the receiver of the listener
\* (the input) is not passed on: in a classic script `this` is the global
\* object inside func.
laterReceiver == "global"

\* Lines 122-131: the handler given to debounce, called with `this` being
\* receiver while the input's value is value.  this.value is undefined on
\* the global object, and undefined.trim() throws a TypeError.
inputHandler(S, receiver, value) ==
    IF receiver # "input"
    THEN [threw |-> TRUE, S |-> S]
    ELSE IF Len(trim(value)) >= MinQueryLength
         THEN [threw |-> FALSE, S |-> showSearchSuggestions(S, trim(value))]
         ELSE [threw |-> FALSE, S |-> hideSearchSuggestions(S)]

DebouncePending == {k \in 1..Len(timers) : timers[k].kind = "debounce"}

\* What the user may type into the search input.
SearchQueries ==
    { <<"a">>, <<" ", "T", "S">>, <<"z", "z">>, <<"o", "r">> }

SearchDelays == {100, 250}

\* Line 122: an input event on the search input, whose value is now v.
InputEvent(v) ==
    /\ deb.calls < MaxInputs
    /\ query' = v
    /\ timers' = debounce(timers, deb.calls + 1)
    /\ deb' = [deb EXCEPT !.calls = @ + 1,
                          !.bursts = IF DebouncePending = {} THEN @ + 1 ELSE @]
    /\ ev' = Ev("input", None)
    /\ UNCHANGED <<pathname, alerts, latest, uploadVars, btn, sent, pollVars, suggest>>

\* Lines 551-554: `later` runs: the handler is called with the arguments of
\* the call that set the timer.  An exception it throws ends the callback.
DebounceTimer ==
    LET r == inputHandler(suggest, laterReceiver, query)
    IN /\ Due("debounce")
       /\ r.threw \/ r.S.made <= MaxDropdowns
       /\ timers' = AfterNext(timers)
       /\ suggest' = r.S
       /\ deb' = [deb EXCEPT !.invoked = @ + 1, !.arg = DueId]
       /\ ev' = Ev("debounced", [arg |-> DueId, threw |-> r.threw])
       /\ UNCHANGED <<pathname, alerts, latest, uploadVars, formVars, pollVars>>

\* Lines 142-146: a click outside the search input.
OutsideClick ==
    /\ suggest' = hideSearchSuggestions(suggest)
    /\ ev' = Ev("click", None)
    /\ UNCHANGED <<pathname, alertVars, uploadVars, formVars, pollVars, deb>>

\* Lines 401-413: the Escape key hides the open modals and the suggestions.
EscapeKey ==
    /\ modalOpen' = FALSE
    /\ suggest' = hideSearchSuggestions(suggest)
    /\ ev' = Ev("escape", None)
    /\ UNCHANGED <<pathname, alertVars, uploadVars, formVars, activeTag,
                   indicators, lastTick, deb>>

InitSearch == InitPage({PathSearch}, {<<>>}, {TRUE})

NextSearch ==
    \/ \E v \in SearchQueries : InputEvent(v)
    \/ DebounceTimer
    \/ \E d \in SearchDelays : Wait(d)
    \/ OutsideClick
    \/ EscapeKey
    \/ Revisit

SpecSearch == InitSearch /\ [][NextSearch]_vars

\* The queries showSearchSuggestions may be called with.
SuggestQueries == SearchQueries \cup { <<"T", "S">> }

\* A call showSearchSuggestions(input, q), by the page or through
\* window.EmailTriageAI.showSearchSuggestions.
ShowSuggestions(q) ==
    /\ suggest.made < MaxDropdowns
    /\ suggest' = showSearchSuggestions(suggest, q)
    /\ ev' = Ev("show", None)
    /\ UNCHANGED <<pathname, alertVars, uploadVars, formVars, pollVars, deb>>

\* A call hideSearchSuggestions(input).
HideSuggestions ==
    /\ suggest' = hideSearchSuggestions(suggest)
    /\ ev' = Ev("hide", None)
    /\ UNCHANGED <<pathname, alertVars, uploadVars, formVars, pollVars, deb>>

\* Lines 196-200: a click on the item of an attached dropdown that shows
\* suggestion s: the input takes the suggestion, the dropdown is hidden and
\* form.submit() sends the form.
SuggestionClick(s) ==
    /\ \E d \in suggest.attached : \E k \in 1..Len(d.items) : d.items[k] = s
    /\ sent["search"] < MaxSent
    /\ query' = s
    /\ suggest' = hideSearchSuggestions(suggest)
    /\ sent' = [sent EXCEPT !["search"] = @ + 1]
    /\ ev' = Ev("suggestion", Attempt("search"))
    /\ UNCHANGED <<pathname, alertVars, uploadVars, btn, pollVars, deb>>

NextSuggest ==
    \/ \E q \in SuggestQueries : ShowSuggestions(q)
    \/ HideSuggestions
    \/ OutsideClick
    \/ EscapeKey
    \/ \E k \in 1..Len(Suggestions) : SuggestionClick(Suggestions[k])
    \/ Revisit

SpecSuggest == InitSearch /\ [][NextSuggest]_vars

(***************************************************************************)
(* The whole page.                                                          *)
(***************************************************************************)
Init == InitPage(PollPaths \cup {PathUpload, PathSearch}, Queries, BOOLEAN)

Next ==
    \/ NextAlert
    \/ NextUpload
    \/ DragOver
    \/ DragLeave
    \/ NextForms
    \/ NextPoller
    \/ NextSearch
    \/ NextCopy
    \/ NextSuggest
    \/ NextLoading

Spec == Init /\ [][Next]_vars

(***************************************************************************)
(* Claims about the notification channel.                                   *)
(***************************************************************************)
Visible(i) == alerts[i].st = "attached" /\ alerts[i].opacity = 1

PendingRemoval(i) ==
    \E k \in 1..Len(timers) :
        /\ timers[k].kind = "remove"
        /\ timers[k].id = i
        /\ timers[k].rem <= FadeOutDelay

\* C6: once showAlert has been called a second time, the only notification
\* that is visible is the one the latest call created; an alert an earlier
\* call created never becomes visible again.
C6_OnlyLatestVisible ==
    latest >= 2 => \A i \in Slots : Visible(i) => i = latest

\* C7 as stated: at most one alert created by showAlert is attached to the
\* document at any time.
C7_AtMostOneAttached == Cardinality(Attached(alerts)) <= 1

\* C7 as amended: every attached alert other than the one the latest call
\* created has a removal timer pending that detaches it within 300 ms.
C7_OlderAlertsPendingRemoval ==
    \A i \in Attached(alerts) : i # latest => PendingRemoval(i)

C7_Witness ==
    /\ latest \in Attached(alerts)
    /\ \E i \in Attached(alerts) : i # latest /\ PendingRemoval(i)

(***************************************************************************)
(* Claims about the intake gate.                                            *)
(***************************************************************************)
\* The handler that ran last called validateCSVFile on a file: a change
\* event with a file, or a drop whose first file is named like a CSV.
Validated ==
    /\ ev.op \in {"change", "drop"}
    /\ ev.a.first # <<>>
    /\ ev.op = "drop" => hasCsvExtension(ev.a.first[1].name)

ValidatedFile == ev.a.first[1]

\* The size, in bytes, is above the maximum the page states: 100 MB.
OverMaximum(size) == size > MaxUploadMB * 1024 * 1024

\* The alerts the handler that ran last raised.
Raised == {i \in Slots : ev.a.calls < i /\ i <= latest}

\* C2: every file the #csvFile input holds has a lower-cased name ending in
\* '.csv' and a size within the maximum, the second and later files of a
\* multi-file drop included.
C2_StagedFilesAllValid ==
    \A i \in 1..Len(files) : Accepted(files[i])

\* C3: a file whose name does not end in '.csv', compared case-insensitively,
\* is rejected by validateCSVFile with the bad-extension outcome and the
\* input's selection is cleared, whatever the file's size.
C3_BadExtensionRejectedAndCleared ==
    (Validated /\ ~hasCsvExtension(ValidatedFile.name)) =>
        /\ files = <<>>
        /\ fileInfo.kind = "bad_extension"
        /\ btn["upload"].disabled
        /\ Raised = {latest}
        /\ alerts[latest].msg = MsgSelectCsv
        /\ alerts[latest].type = "danger"

C3_Witness ==
    /\ Validated
    /\ ~hasCsvExtension(ValidatedFile.name)
    /\ OverMaximum(ValidatedFile.size)
    /\ files = <<>>
    /\ fileInfo.kind = "bad_extension"

\* C4 as stated: a file whose size exceeds the maximum gets the too-large
\* outcome from validateCSVFile, whether its extension is valid or not.
C4_OversizeAlwaysTooLarge ==
    (Validated /\ OverMaximum(ValidatedFile.size)) =>
        /\ fileInfo.kind = "too_large"
        /\ \E i \in Raised : alerts[i].msg = MsgTooLarge

\* C4 as amended: a file whose lower-cased name ends in '.csv' and whose size
\* exceeds the maximum gets the too-large outcome: the selection is cleared,
\* the danger alert 'File size must be less than 100MB.' is raised and the
\* submit control is disabled.
C4_OversizeCsvTooLarge ==
    (Validated /\ hasCsvExtension(ValidatedFile.name)
               /\ OverMaximum(ValidatedFile.size)) =>
        /\ files = <<>>
        /\ fileInfo.kind = "too_large"
        /\ btn["upload"].disabled
        /\ \E i \in Raised : alerts[i].msg = MsgTooLarge /\ alerts[i].type = "danger"

C4_Witness ==
    /\ Validated
    /\ hasCsvExtension(ValidatedFile.name)
    /\ OverMaximum(ValidatedFile.size)
    /\ fileInfo.kind = "too_large"

\* C5: a file whose lower-cased name ends in '.csv' and whose size is within
\* the maximum is accepted: it stays staged in the input, no rejection alert
\* is raised, and #submitBtn is enabled whatever it was before.
C5_ValidFileAccepted ==
    (Validated /\ Accepted(ValidatedFile)) =>
        /\ files # <<>>
        /\ files[1] = ValidatedFile
        /\ Len(files) = ev.a.count
        /\ fileInfo = [kind |-> "selected", name |-> ValidatedFile.name,
                       size |-> ValidatedFile.size]
        /\ ~btn["upload"].disabled
        /\ \A i \in Raised : alerts[i].type # "danger"
        /\ ev.op = "change" => Raised = {}

C5_Witness ==
    /\ Validated
    /\ ev.op = "change"
    /\ Accepted(ValidatedFile)
    /\ ev.a.disabled
    /\ ~btn["upload"].disabled
    /\ files = <<ValidatedFile>>

(***************************************************************************)
(* Claims about form submission.                                            *)
(***************************************************************************)
\* C1: once a submit event has put a form's button into the busy state with
\* a submission in flight, a later submit attempt on that form (a submit
\* event, or Enter in the search input) sends nothing more: the number of
\* outbound submissions of the form stays what it was.
C1_LockedFormSendsNothingMore ==
    (ev.op \in {"submit", "enter"} /\ ev.a.busy /\ ev.a.inflight >= 1) =>
        sent[ev.a.form] = ev.a.inflight

(***************************************************************************)
(* Claims about the poller.                                                 *)
(***************************************************************************)
ReloadPending == \E k \in 1..Len(timers) : timers[k].kind = "reload"

IntervalTimers == {k \in 1..Len(timers) : timers[k].kind = "interval"}

OnApprovalPage == includes(pathname, SlashApproval)

\* C8 as stated: window.location.reload() never runs while a modal is open.
C8_NoReloadWhileModalOpen ==
    ev.op = "reload" => ~ev.a.modal

\* C8 as amended: a tick that fires while a modal is open schedules no reload
\* and adds no indicator, and every reload that runs was scheduled by a tick
\* that saw no modal open; a reload scheduled within the second before the
\* modal opened is not cancelled.
C8_NoReloadScheduledWhileModalOpen ==
    /\ (ev.op = "tick" /\ lastTick.modal) =>
           ~lastTick.scheduled /\ ~ReloadPending /\ indicators = 0
    /\ ev.op = "reload" => ev.a.tick.scheduled /\ ~ev.a.tick.modal

C8_Witness ==
    \/ ev.op = "tick" /\ lastTick.modal /\ ~ReloadPending
    \/ ev.op = "reload" /\ ev.a.modal /\ ~ev.a.tick.modal

\* The user has stopped interacting with an approval page: no modal is open,
\* no button, input or textarea holds the focus, and what happens is time
\* passing and the timers of the page running.
Quiet ==
    /\ OnApprovalPage
    /\ ~modalOpen
    /\ activeTag \notin {"BUTTON", "INPUT", "TEXTAREA"}
    /\ ev.op \in {"tick", "reload", "wait"}

\* C9: after every tick, skipped or not, the interval stays armed at 30 s; a
\* tick at which no modal is open and no button, input or textarea holds the
\* focus schedules the reload, which then runs unless the user leaves the
\* page first; so once the user stops interacting with an approval page for
\* good, reloads keep happening.
C9_SkippedCycleRetried ==
    /\ [](ev.op = "tick" =>
            /\ Cardinality(IntervalTimers) = 1
            /\ \A k \in IntervalTimers : timers[k].rem = RefreshInterval
            /\ lastTick.scheduled <=>
                 (~lastTick.modal /\ lastTick.tag \notin {"BUTTON", "INPUT", "TEXTAREA"})
            /\ lastTick.scheduled <=> ReloadPending)
    /\ [](ev.op = "tick" /\ lastTick.scheduled => <>(ev.op \in {"reload", "visit"}))
    /\ (<>[]Quiet => []<>(ev.op = "reload"))

C9_Witness ==
    /\ ev.op = "reload"
    /\ ev.a.tick.afterSkip

\* C10: a tick at which a form control (a button, an input, a textarea or a
\* select) holds the focus is skipped: it schedules no reload and adds no
\* refresh indicator.
C10_FocusedControlSkipsTick ==
    (ev.op = "tick" /\ lastTick.tag \in {"BUTTON", "INPUT", "TEXTAREA", "SELECT"}) =>
        ~lastTick.scheduled /\ ~ReloadPending /\ indicators = 0

\* C11: on a view that the poller's own reload produced, polling has stopped:
\* no tick schedules a further reload and no further reload runs.
C11_NoReloadOnReloadedView ==
    /\ (ev.op = "tick" /\ lastTick.viaReload) => ~lastTick.scheduled
    /\ ev.op = "reload" => ~ev.a.tick.viaReload

\* C12: the interval is installed exactly on the pages whose pathname
\* contains '/approval': such a page has one interval timer at all times, and
\* on every other page there is no interval, no reload is pending, and
\* neither the tick nor the reload ever runs.
C12_ArmedIffApprovalPath ==
    /\ OnApprovalPage <=> Cardinality(IntervalTimers) = 1
    /\ ~OnApprovalPage =>
          /\ IntervalTimers = {}
          /\ ~ReloadPending
          /\ ev.op \notin {"tick", "reload"}
          /\ ~lastTick.fired

C12_Witness ==
    /\ ~OnApprovalPage
    /\ ev.op \in {"focus", "openModal"}
    /\ timers = <<>>

(***************************************************************************)
(* Claims about the drag-and-drop adapter.                                  *)
(***************************************************************************)
\* The handler that ran last was a drop of two or more files.
DroppedSeveral == ev.op = "drop" /\ ev.a.count >= 2

DroppedFirst == ev.a.first[1]

\* C13: after a drop of two or more files, what the page shows is decided by
\* the first file alone: a first file not named like a CSV gets the one
\* warning of the drop handler; a first file that passes both checks is shown
\* as selected with the submit button enabled and the one success alert; a
\* first CSV above the maximum is rejected as too large.  The other files
\* raise no alert of their own.
C13_OnlyFirstDroppedFileValidated ==
    DroppedSeveral =>
        /\ ~hasCsvExtension(DroppedFirst.name) =>
              /\ Raised = {latest}
              /\ alerts[latest].msg = MsgDropCsv
              /\ btn["upload"].disabled = ev.a.disabled
        /\ (hasCsvExtension(DroppedFirst.name) /\ ~OverMaximum(DroppedFirst.size)) =>
              /\ fileInfo = [kind |-> "selected", name |-> DroppedFirst.name,
                             size |-> DroppedFirst.size]
              /\ ~btn["upload"].disabled
              /\ Raised = {latest}
              /\ alerts[latest].msg = MsgReady
        /\ (hasCsvExtension(DroppedFirst.name) /\ OverMaximum(DroppedFirst.size)) =>
              /\ fileInfo.kind = "too_large"
              /\ files = <<>>
              /\ btn["upload"].disabled
              /\ Raised = {latest - 1, latest}
              /\ alerts[latest - 1].msg = MsgTooLarge
              /\ alerts[latest].msg = MsgReady

C13_Witness ==
    /\ DroppedSeveral
    /\ Accepted(DroppedFirst)
    /\ Len(files) = 2
    /\ ~Accepted(files[2])
    /\ fileInfo.kind = "selected"
    /\ Raised = {latest}

\* What a change event for the file the last handler was given leaves, on a
\* page with no alert yet and the submit button as the handler found it.
SelectedInstead ==
    validateCSVFile([files |-> ev.a.first,
                     fileInfo |-> [kind |-> "initial", name |-> <<>>, size |-> 0],
                     disabled |-> ev.a.disabled,
                     A |-> [alerts |-> [i \in Slots |-> NoAlert], timers |-> <<>>,
                            latest |-> 0]])

\* C14: after a drop of one file the staged selection, what #fileInfo shows
\* and the submit button's disabled state are those a change event for the
\* same file leaves, and if the change event rejects the file, the drop has
\* raised the same alert (message and severity).
C14_DropSameAsSelect ==
    (ev.op = "drop" /\ ev.a.count = 1) =>
        /\ files = SelectedInstead.files
        /\ fileInfo = SelectedInstead.fileInfo
        /\ btn["upload"].disabled = SelectedInstead.disabled
        /\ SelectedInstead.A.latest = 1 =>
              \E i \in Raised :
                  /\ alerts[i].msg = SelectedInstead.A.alerts[1].msg
                  /\ alerts[i].type = SelectedInstead.A.alerts[1].type

\* C15: when the handler that ran last gave validateCSVFile a file that
\* fails a check, the alert it leaves displayed (the one its last showAlert
\* call created) is the danger alert stating the reason and the submit
\* button is disabled; the success alert 'CSV file ready for upload!' is
\* raised only for a file that passes both checks.
C15_RejectionLeavesDangerAlert ==
    /\ (Validated /\ ~Accepted(ValidatedFile)) =>
          /\ btn["upload"].disabled
          /\ alerts[latest].type = "danger"
          /\ alerts[latest].msg \in {MsgSelectCsv, MsgTooLarge}
    /\ (ev.op \in {"change", "drop"} /\ ev.a.first # <<>>) =>
          \A i \in Raised : alerts[i].msg = MsgReady => Accepted(ev.a.first[1])

\* C16: the upload form carries the class drag-over after a dragenter or
\* dragover, and does not carry it after a dragleave, after a drop (whatever
\* was dropped) or on a freshly loaded page; the timers of the page leave the
\* class as it is.
C16_HighlightFollowsLastDragEvent ==
    /\ [](/\ ev.op = "dragover" => dragOver
          /\ ev.op \in {"dragleave", "drop", "load"} => ~dragOver)
    /\ [][ev'.op \in {"fadeIn", "expire", "remove"} => dragOver' = dragOver]_vars

C16_Witness ==
    /\ ev.op = "drop"
    /\ ~dragOver
    /\ ev.a.first # <<>>
    /\ ~Accepted(ev.a.first[1])
    /\ \E i \in Slots : i <= ev.a.calls /\ alerts[i].msg = MsgDropHere

(***************************************************************************)
(* Claims about the submission lock.                                        *)
(***************************************************************************)
\* C17: a form's submit button is busy (setLoading(button, true) has run)
\* only if a submission of that form has been sent from this page and is in
\* flight; a submit event the search handler cancelled leaves the button
\* enabled and not busy.
C17_BusyOnlyWhileInFlight ==
    \A f \in Forms : btn[f].loading => sent[f] >= 1

\* C18: a submit button that is busy is released again, by the response to
\* the submission or by a timeout on a page that stays loaded.
C18_BusyButtonReleased ==
    \A f \in Forms : btn[f].loading ~> ~btn[f].loading

\* C19: while a submission of the upload form is in flight and its submit
\* button is busy, a change event or a drop (validateCSVFile, handleDrop)
\* leaves the button's disabled state as it found it.
C19_ValidationLeavesLockAlone ==
    (/\ ev.op \in {"change", "drop"}
     /\ btn["upload"].loading
     /\ sent["upload"] >= 1) =>
        btn["upload"].disabled = ev.a.disabled

(***************************************************************************)
(* Claims about the timers of the notification channel.                     *)
(***************************************************************************)
\* C20: an alert that was dismissed through its close control, or that a
\* newer showAlert call superseded, has no fade-in or auto-dismiss timer
\* pending any more, and no pending timer will call remove() on an alert
\* that is already detached.
C20_TimersOfGoneAlertsCancelled ==
    \A k \in 1..Len(timers) :
        /\ timers[k].kind \in {"fadeIn", "expire"} =>
              /\ alerts[timers[k].id].st = "attached"
              /\ timers[k].id = latest
        /\ timers[k].kind = "remove" => alerts[timers[k].id].st = "attached"

\* The auto-dismiss timer of alert i is pending.
ExpirePending(i) ==
    \E k \in 1..Len(timers) : timers[k].kind = "expire" /\ timers[k].id = i

\* The duration alert i was created with.
CalledDuration(i) ==
    CHOOSE d \in {c[3] : c \in AlertCalls} :
        \E c \in AlertCalls : c[1] = alerts[i].msg /\ c[3] = d

\* C21: every alert showAlert created is detached in the end with no user
\* action; while it is attached, either its auto-dismiss timer is pending or
\* a removal timer detaches it within 300 ms; and its auto-dismiss timer runs
\* duration after the call, that is duration - 10 ms after its fade-in timer.
C21_AlertExpiresByItself ==
    /\ \A i \in Slots : (alerts[i].st = "attached") ~> (alerts[i].st # "attached")
    /\ [](\A i \in Attached(alerts) : ExpirePending(i) \/ PendingRemoval(i))
    /\ [](\A k \in 1..Len(timers) :
            timers[k].kind = "fadeIn" =>
                \E j \in 1..Len(timers) :
                    /\ timers[j].kind = "expire"
                    /\ timers[j].id = timers[k].id
                    /\ timers[j].rem - timers[k].rem =
                           CalledDuration(timers[k].id) - FadeInDelay)

\* The removal timer the auto-dismiss timer of the only alert set has run.
C21_Witness ==
    /\ ev.op = "remove"
    /\ latest = 1
    /\ alerts[1].st = "detached"
    /\ timers = <<>>

(***************************************************************************)
(* Claims about validateCSVFile as a function.                              *)
(***************************************************************************)
\* validateCSVFile called once more, on the input holding the same file again.
ValidatedAgain == validateCSVFile(UploadState(ev.a.first))

\* C22: after a change event has validated a file, calling validateCSVFile
\* again changes nothing of the outcome: called on the input as the first
\* call left it, it leaves the whole upload state as it is; called with the
\* same file in the input again, it leaves the same selection, the same
\* #fileInfo and the same submit button state, raises no alert if the file
\* was accepted, and raises an alert with the same message and severity if
\* it was rejected.
C22_ValidationIdempotent ==
    (ev.op = "change" /\ ev.a.first # <<>> /\ latest < MaxAlerts) =>
        /\ validateCSVFile(UploadState(files)) = UploadState(files)
        /\ ValidatedAgain.files = files
        /\ ValidatedAgain.fileInfo = fileInfo
        /\ ValidatedAgain.disabled = btn["upload"].disabled
        /\ Accepted(ev.a.first[1]) =>
              /\ ValidatedAgain.A = AlertState
              /\ Raised = {}
        /\ ~Accepted(ev.a.first[1]) =>
              /\ Raised = {latest}
              /\ ValidatedAgain.A.latest = latest + 1
              /\ ValidatedAgain.A.alerts[latest + 1].msg = alerts[latest].msg
              /\ ValidatedAgain.A.alerts[latest + 1].type = alerts[latest].type

C22_Witness ==
    /\ ev.op = "change"
    /\ ev.a.first # <<>>
    /\ latest < MaxAlerts
    /\ ~Accepted(ev.a.first[1])
    /\ ~ev.a.disabled
    /\ ValidatedAgain.A.alerts[latest + 1].msg = MsgTooLarge

(***************************************************************************)
(* Claims about the search input.                                           *)
(***************************************************************************)
\* C23: at most one timeout of the debounced listener is pending, it belongs
\* to the last call and runs 300 ms after it; the handler is invoked with the
\* arguments of the last call, when no call has arrived for 300 ms, and once
\* for each burst of calls.
C23_DebounceRunsOncePerBurst ==
    /\ Cardinality(DebouncePending) <= 1
    /\ \A k \in DebouncePending :
          /\ timers[k].id = deb.calls
          /\ timers[k].rem <= SuggestDelay
          /\ ev.op = "input" => timers[k].rem = SuggestDelay
    /\ ev.op = "input" => DebouncePending # {}
    /\ deb.invoked = deb.bursts - Cardinality(DebouncePending)
    /\ ev.op = "debounced" =>
          /\ ev.a.arg = deb.calls
          /\ deb.arg = deb.calls
          /\ DebouncePending = {}

\* A burst of three calls has ended with one invocation of the handler.
C23_Witness ==
    /\ ev.op = "debounced"
    /\ deb.calls = 3
    /\ deb.bursts = 1
    /\ deb.invoked = 1
    /\ ev.a.arg = 3

\* C27: when the debounced handler has run, it has raised no exception, and
\* if the input's trimmed value has at least 2 characters the input refers to
\* one attached dropdown that lists the built-in suggestions containing the
\* value (or to none when no suggestion contains it); otherwise no dropdown
\* of the input is attached.
C27_DebouncedHandlerShowsSuggestions ==
    ev.op = "debounced" =>
        /\ ~ev.a.threw
        /\ IF Len(trim(query)) >= MinQueryLength /\ filteredSuggestions(trim(query)) # <<>>
           THEN /\ suggest.ref # 0
                /\ suggest.attached =
                       {[id |-> suggest.ref, items |-> filteredSuggestions(trim(query))]}
           ELSE /\ suggest.ref = 0
                /\ suggest.attached = {}

(***************************************************************************)
(* Claims about copyToClipboard.                                            *)
(***************************************************************************)
\* C24: a call of copyToClipboard lets no exception escape and raises exactly
\* one alert, which is a success alert if the text was copied and a danger
\* alert if it was not; on the fallback path the temporary textarea is not
\* left attached.
C24_CopyReportsOutcome ==
    ev.op = "copy" =>
        /\ ~ev.a.escaped
        /\ Raised = {latest}
        /\ ev.a.copied => alerts[latest].type = "success"
        /\ ~ev.a.copied => alerts[latest].type = "danger"
        /\ ev.a.fallback => ~ev.a.textarea

\* C25: the other copy of validateCSVFile in the repository gives every file
\* the outcome this one gave it: the same files are left in the input, and
\* the file is accepted, rejected for its extension or rejected for its size
\* by both.
C25_BothCopiesAgree ==
    (ev.op = "change" /\ ev.a.first # <<>>) =>
        /\ validateCSVFileOld(ev.a.first).files = files
        /\ validateCSVFileOld(ev.a.first).outcome = fileInfo.kind

\* C26: a submit attempt on the search form (a submit event, or Enter in the
\* search input) made while the query's trimmed length is below 2 sends
\* nothing and raises the warning 'Please enter at least 2 characters to
\* search.'.
C26_ShortQueryNeverSent ==
    (/\ ev.op \in {"submit", "enter"}
     /\ ev.a.form = "search"
     /\ Len(trim(query)) < MinQueryLength) =>
        /\ sent["search"] = ev.a.inflight
        /\ \E i \in Raised :
              alerts[i].msg = MsgQueryTooShort /\ alerts[i].type = "warning"

\* C28: on a page that started with no file staged and #submitBtn disabled,
\* #submitBtn is enabled only while the input holds a file that passes the
\* extension check and the size check.
C28_EnabledOnlyWithValidFile ==
    ~btn["upload"].disabled => \E i \in 1..Len(files) : Accepted(files[i])

(***************************************************************************)
(* Claims about setLoading.                                                 *)
(***************************************************************************)
\* C30: after one or more calls setLoading(button, true) in a row followed
\* by setLoading(button, false), the button has the inner markup it had
\* before the first of the calls, is not in the loading state and carries no
\* saved markup.
C30_SetLoadingRoundTrip ==
    (ev.op = "setLoading" /\ ~ev.a.loading /\ ev.a.trues >= 1) =>
        /\ btn[ev.a.form].html = ev.a.start
        /\ ~btn[ev.a.form].loading
        /\ ~btn[ev.a.form].disabled
        /\ btn[ev.a.form].saved = "none"

ValidatedCsv == Validated /\ hasCsvExtension(ValidatedFile.name)

\* C31 as stated: a '.csv' file is accepted if and only if its size is
\* strictly less than 100 * 1024 * 1024 bytes.
C31_AcceptedIffBelowMaximum ==
    ValidatedCsv =>
        (fileInfo.kind = "selected" <=> ValidatedFile.size < 100 * 1024 * 1024)

\* C31 as amended: a '.csv' file is accepted if and only if its size is at
\* most 100 * 1024 * 1024 bytes, and is rejected as too large otherwise: a
\* file of exactly 104857600 bytes is accepted.
C31_AcceptedIffAtMostMaximum ==
    ValidatedCsv =>
        /\ fileInfo.kind = "selected" <=> ValidatedFile.size <= 100 * 1024 * 1024
        /\ fileInfo.kind = "too_large" <=> ValidatedFile.size > 100 * 1024 * 1024
        /\ fileInfo.kind = "selected" => files # <<>> /\ ~btn["upload"].disabled
        /\ fileInfo.kind = "too_large" => files = <<>> /\ btn["upload"].disabled

C31_Witness ==
    /\ ValidatedCsv
    /\ ValidatedFile.size = 104857600
    /\ fileInfo.kind = "selected"
    /\ files = <<ValidatedFile>>
    /\ ~btn["upload"].disabled

=============================================================================
